---- MODULE Spec2Model ----
(***************************************************************************)
(* Timer coordination engine of the Twenty20 break reminder:               *)
(* the shared TimerState, the 1 Hz timer loop (run_timer_loop), the        *)
(* command surface and the settings-window save, with the two mutexes      *)
(* (TimerState, AppConfig) they share.                                     *)
(*                                                                         *)
(* The loop is modelled one critical section at a time: every action of   *)
(* the loop is the code between two points at which another thread can    *)
(* observe or change the shared state.  Loop-local variables keep the     *)
(* names they have in run_timer_loop.                                      *)
(***************************************************************************)
EXTENDS Integers, Sequences, FiniteSets, TLC

(***************************************************************************)
(* Bounds.  The three periods are 60, 30 and 30 in the source; the model   *)
(* keeps the arithmetic and shortens the periods.                          *)
(***************************************************************************)
\* seconds in one configured minute (the 60 of `work_interval_minutes * 60`)
SecondsPerMinute == 2
\* ticks between two meeting probes (the 30 of `meeting_poll_counter >= 30`)
MeetingPollTicks == 2
\* ticks between two throttled persistence writes (the 30 of maybe_persist)
PersistTicks == 3
\* largest `minutes` argument given to pause_timer
MaxPauseMinutes == 1
\* number of signals and command invocations the environment issues in a run
MaxEnvEvents == 2
\* width in bits of the model's u32 (32 in the source)
U32Bits == 4

\* Option::None of the two optional TimerState fields
None == -1

Min(a, b) == IF a < b THEN a ELSE b
Max(a, b) == IF a > b THEN a ELSE b
clamp(x, lo, hi) == Max(lo, Min(x, hi))
saturating_sub(a, b) == IF a > b THEN a - b ELSE 0

\* `x as u32`: the low bits of a wider value
as_u32(x) == x % (2 ^ U32Bits)
\* u32 multiplication in a build without overflow checks
wrapping_mul(a, b) == (a * b) % (2 ^ U32Bits)
\* u32 multiplication in a build with overflow checks panics exactly when this holds
mul_overflows(a, b) == a * b >= 2 ^ U32Bits

(***************************************************************************)
(* AppConfig (the fields the core reads) and its validation.               *)
(***************************************************************************)
AppConfig(m, b, s, md, pw) ==
    [work_interval_minutes |-> m, break_duration_seconds |-> b, strict_mode |-> s,
     meeting_detection |-> md, pre_warning_seconds |-> pw]

validated(c) ==
    [c EXCEPT !.work_interval_minutes = clamp(c.work_interval_minutes, 1, 60),
              !.break_duration_seconds = clamp(c.break_duration_seconds, 5, 60),
              !.pre_warning_seconds = IF c.pre_warning_seconds # 0
                                      THEN clamp(c.pre_warning_seconds, 30, 120)
                                      ELSE 0]

\* config files AppConfig::load may find at startup (load does not validate)
LoadedConfigs ==
    { AppConfig(1, 2, FALSE, TRUE, 1),
      AppConfig(2, 1, TRUE, TRUE, 0) }

\* configs handed to save_config / entered in the settings window
SavedConfigs ==
    { AppConfig(0, 0, TRUE, FALSE, 0),
      AppConfig(2, 5, FALSE, TRUE, 0) }

(***************************************************************************)
(* TimerState and its construction.                                        *)
(***************************************************************************)
interval_of(c) == c.work_interval_minutes * SecondsPerMinute

TimerState_new(c) ==
    [seconds_remaining |-> interval_of(c),
     is_paused |-> FALSE,
     pause_reason |-> "None",
     is_strict_mode |-> c.strict_mode,
     work_interval_seconds |-> interval_of(c),
     manual_pause_seconds_remaining |-> None]

\* PersistedTimer records PersistedTimer::load may return; NoRecord: no readable file
NoRecord == [seconds_remaining |-> None, saved_at |-> 0]
PersistedTimer(s, t) == [seconds_remaining |-> s, saved_at |-> t]
PersistedInputs ==
    {NoRecord} \cup {PersistedTimer(s, 10) : s \in 0 .. (2 * SecondsPerMinute + 1)}
ClockInputs == {9, 10, 11, 13}

\* restore without the test that discards a record longer than the interval
restore_or_create_keeps_stale(c, persisted, now) ==
    LET interval == interval_of(c)
        elapsed  == saturating_sub(now, persisted.saved_at)
        adjusted == saturating_sub(persisted.seconds_remaining, as_u32(elapsed))
    IN  IF persisted = NoRecord THEN TimerState_new(c)
        ELSE IF adjusted = 0 THEN TimerState_new(c)
        ELSE [seconds_remaining |-> adjusted,
              is_paused |-> FALSE,
              pause_reason |-> "None",
              is_strict_mode |-> c.strict_mode,
              work_interval_seconds |-> interval,
              manual_pause_seconds_remaining |-> None]
\* `now` and `saved_at` are u64 seconds; the elapsed time is cut to u32 before it is
\* subtracted from the u32 seconds_remaining
restore_or_create(c, persisted, now) ==
    LET interval == interval_of(c)
        elapsed  == saturating_sub(now, persisted.saved_at)
        adjusted == saturating_sub(persisted.seconds_remaining, as_u32(elapsed))
    IN  IF persisted = NoRecord THEN TimerState_new(c)
        ELSE IF persisted.seconds_remaining > interval THEN TimerState_new(c)
        ELSE IF adjusted = 0 THEN TimerState_new(c)
        ELSE [seconds_remaining |-> adjusted,
              is_paused |-> FALSE,
              pause_reason |-> "None",
              is_strict_mode |-> c.strict_mode,
              work_interval_seconds |-> interval,
              manual_pause_seconds_remaining |-> None]

(***************************************************************************)
(* State.                                                                  *)
(***************************************************************************)
VARIABLES
    ts,                     \* the TimerState behind SharedTimerState
    cfg,                    \* AppState.config
    timer_lock,             \* holder of the TimerState mutex: "free", "loop", ...
    config_lock,            \* holder of the AppConfig mutex
    timer_poisoned,         \* a thread panicked while it held the TimerState mutex
    is_sleeping,            \* value in the sleep_watch channel
    loop_pc,                \* position of run_timer_loop
    meeting_poll_counter,
    break_active,
    break_seconds_left,
    notified_pre_warning,
    persist_counter,
    was_sleeping,
    input_suppressed,       \* strict_mode's EVENT_TAP_ACTIVE
    tick,                   \* the locals of one loop iteration
    sc,                     \* save_config between its two critical sections
    sa,                     \* save_action while it holds the config mutex
    last,                   \* the step just taken: operation, result, events emitted
    env_events,             \* signals and command invocations issued so far
    quiet_ticks,            \* work ticks since a fresh state with no interruption
    break_d,                \* duration of the break being observed
    break_log,              \* loop events of that break so far
    break_aborted,          \* the last break was aborted by a meeting
    awake_ticks,            \* awake ticks since the loop started, woke or probed
    obs,                    \* observation of one work cycle and of one manual pause
    call                    \* the last call of a function on chosen arguments

shared   == <<ts, cfg, timer_lock, config_lock, timer_poisoned, is_sleeping>>
locals   == <<loop_pc, meeting_poll_counter, break_active, break_seconds_left,
              notified_pre_warning, persist_counter, was_sleeping, tick>>
inflight == <<sc, sa>>
history  == <<last, env_events, quiet_ticks, break_d, break_log, break_aborted>>
vars     == <<shared, locals, inflight, history, obs, call, input_suppressed,
              awake_ticks>>

\* the locals of an iteration before the loop has read anything; aborted_break
\* notes that this iteration took the `if break_active` arm of the meeting branch
NoTick ==
    [config_interval |-> 0, config_break_dur |-> 0, is_strict |-> FALSE,
     meeting_detection |-> FALSE, pre_warning_secs |-> 0,
     meeting_now |-> FALSE, currently_meeting_paused |-> FALSE,
     seconds_remaining |-> 0, aborted_break |-> FALSE]

NoSave == [pending |-> FALSE, config |-> AppConfig(0, 0, FALSE, FALSE, 0)]
Saving(c) == [pending |-> TRUE, config |-> c]

\* an emitted event and its payload
Ev(name, n, b, r) == [name |-> name, n |-> n, b |-> b, r |-> r]
timer_tick(n, b, r) == Ev("timer:tick", n, b, r)
break_start(d)      == Ev("break:start", d, FALSE, "None")
break_tick(n)       == Ev("break:tick", n, FALSE, "None")
break_end(forced)   == Ev("break:end", 0, forced, "None")
persist_state(n)    == Ev("persist", n, FALSE, "None")

\* the names of the break:tick and break:end events among ev, in order
RECURSIVE BreakEvents(_)
BreakEvents(ev) ==
    IF ev = <<>> THEN <<>>
    ELSE (IF Head(ev).name \in {"break:tick", "break:end"} THEN <<Head(ev).name>> ELSE <<>>)
         \o BreakEvents(Tail(ev))

Step(op, ret, ev) == [op |-> op, ret |-> ret, ev |-> ev]

Fresh(t) ==
    /\ t.seconds_remaining = t.work_interval_seconds
    /\ ~t.is_paused
    /\ t.pause_reason = "None"

(***************************************************************************)
(* Observations.  `obs` follows one work cycle (the pre-break notifications *)
(* since seconds_remaining was last reset to the full interval) and one     *)
(* manual pause (its length, the paused ticks since, the countdown when it  *)
(* began), one nap (a wake signal the loop has not answered yet) and the    *)
(* bracket of break events (a break:start with no break:end after it).  It  *)
(* is switched on by the initial state and stays off otherwise.             *)
(***************************************************************************)
ObsOff ==
    [on |-> FALSE, notes |-> None, pause_n |-> None, pause_ticks |-> 0, pause_sr |-> None,
     nap |-> FALSE, in_break |-> FALSE]
ObsOn == [ObsOff EXCEPT !.on = TRUE]

\* seconds_remaining was reset to the full interval: a work cycle begins
CycleReset(o) == IF o.on THEN [o EXCEPT !.notes = 0] ELSE o
\* the configuration changed: the cycle under observation is given up
CycleVoid(o) == [o EXCEPT !.notes = None]
\* the work branch ran its pre-break test
CycleNote(o, fired) ==
    IF fired /\ o.notes # None THEN [o EXCEPT !.notes = Min(@ + 1, 2)] ELSE o
\* a command, a detected meeting or a power signal ends the observed pause
PauseVoid(o) == [o EXCEPT !.pause_n = None, !.pause_ticks = 0, !.pause_sr = None]
\* a pause of n seconds was accepted while seconds_remaining was sr
PauseBegin(o, n, sr) ==
    IF o.on THEN [o EXCEPT !.pause_n = n, !.pause_ticks = 0, !.pause_sr = sr] ELSE o
\* the paused branch ran once more
PauseTick(o) ==
    IF o.pause_n # None THEN [o EXCEPT !.pause_ticks = Min(@ + 1, o.pause_n + 1)] ELSE o

\* the wake signal that ends a sleep was sent
NapOver(o) == [o EXCEPT !.nap = o.on]
\* the loop ran its asleep -> awake reset
NapAnswered(o) == [o EXCEPT !.nap = FALSE]

\* break:start was emitted
BreakOpened(o) == [o EXCEPT !.in_break = o.on]
\* break:end was emitted
BreakClosed(o) == [o EXCEPT !.in_break = FALSE]

\* a call record before any call
NoCall ==
    [fn |-> "none", config |-> AppConfig(0, 0, FALSE, FALSE, 0), persisted |-> NoRecord,
     now |-> 0, t |-> TimerState_new(AppConfig(0, 0, FALSE, FALSE, 0)), minutes |-> 0,
     out |-> TimerState_new(AppConfig(0, 0, FALSE, FALSE, 0)), ret |-> "-"]

\* run(): load the configuration, restore the timer, start the loop
Boot(configs, records, clocks) ==
    /\ \E c \in configs, p \in records, now \in clocks :
          /\ cfg = c
          /\ ts = restore_or_create(c, p, now)
    /\ timer_lock = "free"
    /\ config_lock = "free"
    /\ timer_poisoned = FALSE
    /\ is_sleeping = FALSE
    /\ loop_pc = "top"
    /\ meeting_poll_counter = 0
    /\ break_active = FALSE
    /\ break_seconds_left = 0
    /\ notified_pre_warning = FALSE
    /\ persist_counter = 0
    /\ was_sleeping = FALSE
    /\ tick = NoTick
    /\ sc = NoSave
    /\ sa = NoSave
    /\ last = Step("init", "-", <<>>)
    /\ env_events = 0
    /\ quiet_ticks = IF Fresh(ts) THEN 0 ELSE None
    /\ break_d = None
    /\ break_log = <<>>
    /\ break_aborted = FALSE
    /\ call = NoCall
    /\ input_suppressed = FALSE
    /\ awake_ticks = 0

Init ==
    /\ Boot(LoadedConfigs, PersistedInputs, ClockInputs)
    /\ obs = ObsOff

\* the same start with the observations switched on
InitObserved ==
    /\ Boot(LoadedConfigs, PersistedInputs, ClockInputs)
    /\ obs = ObsOn

\* an interruption ends the observation of an undisturbed run
Interrupted ==
    /\ quiet_ticks' = None
    /\ break_d' = None
    /\ break_log' = <<>>

(***************************************************************************)
(* Pure steps of the loop.                                                 *)
(***************************************************************************)
\* lock!(m): a poisoned mutex is recovered, so only the holder matters
CanLock(holder) == holder = "free"

\* `$m.lock().unwrap_or_else(|e| e.into_inner())` on the TimerState mutex: the
\* caller waits for the holder and gets the guard whether or not the mutex is
\* poisoned; `.lock().unwrap()` would panic on the poison instead
lock_unwrap(holder, poisoned) ==
    IF ~CanLock(holder) THEN "wait" ELSE IF poisoned THEN "panic" ELSE "guard"
lock(holder, poisoned) ==
    IF ~CanLock(holder) THEN "wait" ELSE "guard"

\* the work countdown: decrement, floor at zero
work_countdown_twice(s) == IF s > 1 THEN s - 2 ELSE 0
work_countdown(s) == IF s > 0 THEN s - 1 ELSE s

\* asleep -> awake, Skip break and Force-skip: back to a full interval
reset_full_keeps_pause(t) ==
    [t EXCEPT !.seconds_remaining = t.work_interval_seconds]
reset_full(t) ==
    [t EXCEPT !.seconds_remaining = t.work_interval_seconds,
              !.is_paused = FALSE,
              !.pause_reason = "None"]

wake_reset_keeps_pause(t) ==
    [t EXCEPT !.seconds_remaining = t.work_interval_seconds,
              !.manual_pause_seconds_remaining = None]
wake_reset(t) ==
    [reset_full(t) EXCEPT !.manual_pause_seconds_remaining = None]

\* strict_mode.rs: EVENT_TAP_ACTIVE.swap(true) and .swap(false)
enable_strict_input_suppression(active) == TRUE
disable_strict_input_suppression_noop(active) == active
disable_strict_input_suppression(active) == FALSE

\* awake -> asleep: `break_active = false`
abandon_break_keeps(active) == active
abandon_break(active) == FALSE

\* a meeting starts (the timer is not meeting-paused yet)
meeting_started_resets(t, active, interval) ==
    [t EXCEPT !.seconds_remaining = interval,
              !.is_paused = TRUE,
              !.pause_reason = "Meeting"]
meeting_started_no_reset(t, active, interval) ==
    [t EXCEPT !.is_paused = TRUE, !.pause_reason = "Meeting"]
meeting_started(t, active, interval) ==
    IF active
    THEN [t EXCEPT !.seconds_remaining = interval,
                   !.is_paused = TRUE,
                   !.pause_reason = "Meeting"]
    ELSE [t EXCEPT !.is_paused = TRUE,
                   !.pause_reason = "Meeting"]

\* the meeting ended while the timer was meeting-paused
meeting_ended_keeps_reason(t) ==
    [t EXCEPT !.is_paused = FALSE]
meeting_ended(t) ==
    [t EXCEPT !.is_paused = FALSE, !.pause_reason = "None"]

\* the break is over: a new work cycle
break_complete_keeps_zero(t, interval) ==
    [t EXCEPT !.is_paused = FALSE,
              !.pause_reason = "None"]
break_complete(t, interval) ==
    [t EXCEPT !.seconds_remaining = interval,
              !.is_paused = FALSE,
              !.pause_reason = "None"]

\* the break countdown is decremented first and tested afterwards
break_finished_early(before, after) == before = 0
break_finished(before, after) == after = 0

\* one paused tick of the manual-pause countdown
manual_pause_tick(t) ==
    IF t.manual_pause_seconds_remaining = 0
    THEN IF t.pause_reason = "Manual"
         THEN [t EXCEPT !.manual_pause_seconds_remaining = None,
                        !.is_paused = FALSE,
                        !.pause_reason = "None"]
         ELSE [t EXCEPT !.manual_pause_seconds_remaining = None]
    ELSE IF t.manual_pause_seconds_remaining # None
    THEN [t EXCEPT !.manual_pause_seconds_remaining = @ - 1]
    ELSE t

\* meeting.rs: what the osascript helper of is_browser_call_active can come to
ScriptOutcomes == {"call", "no_call", "spawn_failed", "timed_out", "wait_failed"}
\* only a script that exited with a matching window title is a call
is_browser_call_active(script) == script = "call"
is_av_device_in_use == FALSE
\* the native check comes first and short-circuits the script
is_meeting_active(native, script) ==
    native \/ is_browser_call_active(script) \/ is_av_device_in_use
\* `spawn_blocking(is_meeting_active).await.unwrap_or(false)`
probe_result_or_true(joined, native, script) ==
    IF joined THEN is_meeting_active(native, script) ELSE TRUE
probe_result(joined, native, script) ==
    IF joined THEN is_meeting_active(native, script) ELSE FALSE
\* the runs of the probe: the task fails, the native check answers, or the
\* script is run
ProbeRuns ==
    {[joined |-> FALSE, native |-> FALSE, script |-> "not_run"],
     [joined |-> TRUE, native |-> TRUE, script |-> "not_run"]}
    \cup {[joined |-> TRUE, native |-> FALSE, script |-> s] : s \in ScriptOutcomes}
\* what the probe came to, for the record of the step
probe_outcome(joined, native, script) ==
    IF ~joined THEN "task_failed" ELSE IF native THEN "native" ELSE script

\* `meeting_poll_counter += 1`; the loop only ever asks whether the counter has
\* reached the period, so the model stops counting there
poll_count(counter) == Min(counter + 1, MeetingPollTicks)
\* `meeting_detection && meeting_poll_counter >= 30`, after the increment
probe_due_always(detection, counter) == detection
probe_due(detection, counter) == detection /\ counter + 1 >= MeetingPollTicks

\* maybe_persist: the counter after this tick, and whether this tick writes
persist_due(counter) == counter + 1 >= PersistTicks
persist_next(counter) == IF persist_due(counter) THEN 0 ELSE counter + 1

(***************************************************************************)
(* run_timer_loop, one iteration.                                          *)
(***************************************************************************)
\* awake -> asleep: abandon the break, skip the rest of the tick
SleepEdge ==
    /\ loop_pc = "top"
    /\ ~was_sleeping /\ is_sleeping
    /\ break_active' = abandon_break(break_active)
    /\ notified_pre_warning' = FALSE
    /\ was_sleeping' = TRUE
    /\ last' = Step("sleep_edge", "-", <<>>)
    /\ Interrupted
    /\ UNCHANGED <<shared, inflight, loop_pc, meeting_poll_counter, break_seconds_left,
                   persist_counter, tick, env_events, break_aborted>>
    /\ obs' = PauseVoid(obs)
    /\ UNCHANGED call
    /\ input_suppressed' = disable_strict_input_suppression(input_suppressed)
    /\ UNCHANGED awake_ticks

\* asleep -> awake, first critical section: reset and persist
WakeReset ==
    /\ loop_pc = "top"
    /\ was_sleeping /\ ~is_sleeping
    /\ lock(timer_lock, timer_poisoned) = "guard"
    /\ ts' = wake_reset(ts)
    /\ loop_pc' = "wake_emit"
    /\ last' = Step("wake_reset", "-", <<persist_state(ts'.seconds_remaining)>>)
    /\ Interrupted
    /\ UNCHANGED <<cfg, timer_lock, config_lock, timer_poisoned, is_sleeping, inflight,
                   meeting_poll_counter, break_active, break_seconds_left,
                   notified_pre_warning, persist_counter, was_sleeping, tick,
                   env_events, break_aborted>>
    /\ obs' = NapAnswered(CycleReset(PauseVoid(obs)))
    /\ UNCHANGED call
    /\ awake_ticks' = 0
    /\ UNCHANGED input_suppressed

\* asleep -> awake, second critical section: the tick is emitted under the lock
WakeEmit ==
    /\ loop_pc = "wake_emit"
    /\ lock(timer_lock, timer_poisoned) = "guard"
    /\ meeting_poll_counter' = 0
    /\ was_sleeping' = FALSE
    /\ loop_pc' = "top"
    /\ last' = Step("wake_emit", "-", <<timer_tick(ts.seconds_remaining, FALSE, "None")>>)
    /\ quiet_ticks' = IF Fresh(ts) /\ ~break_active THEN 0 ELSE None
    /\ break_d' = None
    /\ break_log' = <<>>
    /\ UNCHANGED <<shared, inflight, break_active, break_seconds_left,
                   notified_pre_warning, persist_counter, tick, env_events, break_aborted>>
    /\ UNCHANGED <<obs, call>>
    /\ UNCHANGED <<input_suppressed, awake_ticks>>

\* asleep on both sides of the tick
MidSleep ==
    /\ loop_pc = "top"
    /\ was_sleeping /\ is_sleeping
    /\ last' = Step("mid_sleep", "-", <<>>)
    /\ UNCHANGED <<shared, locals, inflight, env_events, quiet_ticks, break_d, break_log,
                   break_aborted>>
    /\ UNCHANGED <<obs, call>>
    /\ UNCHANGED <<input_suppressed, awake_ticks>>

\* awake: snapshot the configuration under the config mutex
ReadConfig ==
    /\ loop_pc = "top"
    /\ ~was_sleeping /\ ~is_sleeping
    /\ CanLock(config_lock)
    /\ tick' = [NoTick EXCEPT !.config_interval = interval_of(cfg),
                              !.config_break_dur = cfg.break_duration_seconds,
                              !.is_strict = cfg.strict_mode,
                              !.meeting_detection = cfg.meeting_detection,
                              !.pre_warning_secs = cfg.pre_warning_seconds]
    /\ loop_pc' = "meeting"
    /\ last' = Step("read_config", "-", <<>>)
    /\ UNCHANGED <<shared, inflight, meeting_poll_counter, break_active, break_seconds_left,
                   notified_pre_warning, persist_counter, was_sleeping, env_events,
                   quiet_ticks, break_d, break_log, break_aborted>>
    /\ UNCHANGED <<obs, call>>
    /\ awake_ticks' = Min(awake_ticks + 1, MeetingPollTicks)
    /\ UNCHANGED input_suppressed

\* the meeting probe, every MeetingPollTicks-th awake tick, and the read of
\* currently_meeting_paused that follows it
MeetingPoll ==
    /\ loop_pc = "meeting"
    /\ IF probe_due(tick.meeting_detection, meeting_poll_counter)
       THEN /\ lock(timer_lock, timer_poisoned) = "guard"
            /\ meeting_poll_counter' = 0
            /\ \E run \in ProbeRuns :
                  LET meeting_now == probe_result(run.joined, run.native, run.script)
                      currently_meeting_paused == ts.pause_reason = "Meeting" IN
                  /\ tick' = [tick EXCEPT !.meeting_now = meeting_now,
                                          !.currently_meeting_paused =
                                              currently_meeting_paused]
                  /\ loop_pc' = IF meeting_now # currently_meeting_paused
                                THEN "meeting_apply" ELSE "phase"
                  /\ IF meeting_now
                     THEN Interrupted
                     ELSE UNCHANGED <<quiet_ticks, break_d, break_log>>
                  /\ last' = Step("meeting_probe",
                                  probe_outcome(run.joined, run.native, run.script), <<>>)
       ELSE /\ meeting_poll_counter' = poll_count(meeting_poll_counter)
            /\ loop_pc' = "phase"
            /\ last' = Step("meeting_skip", "-", <<>>)
            /\ UNCHANGED <<tick, quiet_ticks, break_d, break_log>>
    /\ UNCHANGED <<shared, inflight, break_active, break_seconds_left,
                   notified_pre_warning, persist_counter, was_sleeping, env_events,
                   break_aborted>>
    /\ obs' = IF tick'.meeting_now THEN PauseVoid(obs) ELSE obs
    /\ UNCHANGED call
    /\ awake_ticks' = IF last'.op = "meeting_probe" THEN 0 ELSE awake_ticks
    /\ UNCHANGED input_suppressed

\* the meeting started or ended: the pause state follows it
MeetingApply ==
    /\ loop_pc = "meeting_apply"
    /\ lock(timer_lock, timer_poisoned) = "guard"
    /\ IF tick.meeting_now
       THEN /\ ts' = meeting_started(ts, break_active, tick.config_interval)
            /\ break_active' = FALSE
            /\ input_suppressed' = IF break_active
                                   THEN disable_strict_input_suppression(input_suppressed)
                                   ELSE input_suppressed
            /\ tick' = [tick EXCEPT !.aborted_break = break_active]
            /\ break_aborted' = (break_active \/ break_aborted)
            /\ last' = Step("meeting_started", "-", <<>>)
       ELSE /\ ts' = meeting_ended(ts)
            /\ last' = Step("meeting_ended", "-", <<>>)
            /\ UNCHANGED <<break_active, break_aborted, input_suppressed, tick>>
    /\ loop_pc' = "phase"
    /\ UNCHANGED <<cfg, timer_lock, config_lock, timer_poisoned, is_sleeping, inflight,
                   meeting_poll_counter, break_seconds_left, notified_pre_warning,
                   persist_counter, was_sleeping, env_events, quiet_ticks,
                   break_d, break_log>>
    /\ obs' = IF tick.meeting_now /\ break_active
               THEN CycleReset(PauseVoid(obs)) ELSE PauseVoid(obs)
    /\ UNCHANGED call
    /\ UNCHANGED awake_ticks

\* one second of the break: decrement, then test for completion
BreakCountdown ==
    /\ loop_pc = "phase"
    /\ break_active
    /\ LET left == saturating_sub(break_seconds_left, 1) IN
       /\ break_seconds_left' = left
       /\ IF break_finished(break_seconds_left, left)
          THEN /\ lock(timer_lock, timer_poisoned) = "guard"
               /\ break_active' = FALSE
               /\ notified_pre_warning' = FALSE
               /\ input_suppressed' = disable_strict_input_suppression(input_suppressed)
               /\ ts' = break_complete(ts, tick.config_interval)
               /\ last' = Step("break_end", "-",
                               <<break_end(FALSE), persist_state(ts'.seconds_remaining)>>)
               /\ break_log' = IF break_d # None
                               THEN break_log \o BreakEvents(last'.ev) ELSE <<>>
               /\ quiet_ticks' = IF Fresh(ts') THEN 0 ELSE None
          ELSE /\ last' = Step("break_tick", "-", <<break_tick(left)>>)
               /\ break_log' = IF break_d # None
                               THEN break_log \o BreakEvents(last'.ev) ELSE <<>>
               /\ quiet_ticks' = None
               /\ UNCHANGED <<ts, break_active, notified_pre_warning, input_suppressed>>
    /\ loop_pc' = "top"
    /\ tick' = NoTick
    /\ UNCHANGED <<cfg, timer_lock, config_lock, timer_poisoned, is_sleeping, inflight,
                   meeting_poll_counter, persist_counter, was_sleeping, env_events,
                   break_d, break_aborted>>
    /\ obs' = IF ~break_active' THEN BreakClosed(CycleReset(obs)) ELSE obs
    /\ UNCHANGED call
    /\ UNCHANGED awake_ticks

\* `let paused = lock!(timer).is_paused`
ReadPaused ==
    /\ loop_pc = "phase"
    /\ ~break_active
    /\ lock(timer_lock, timer_poisoned) = "guard"
    /\ loop_pc' = IF ts.is_paused THEN "paused_handle" ELSE "work_dec"
    /\ last' = Step("read_paused", "-", <<>>)
    /\ UNCHANGED <<shared, inflight, meeting_poll_counter, break_active,
                   break_seconds_left, notified_pre_warning, persist_counter,
                   was_sleeping, tick, env_events, quiet_ticks, break_d, break_log,
                   break_aborted>>
    /\ UNCHANGED <<obs, call>>
    /\ UNCHANGED <<input_suppressed, awake_ticks>>

\* paused: the manual-pause countdown and auto-resume
PausedHandle ==
    /\ loop_pc = "paused_handle"
    /\ lock(timer_lock, timer_poisoned) = "guard"
    /\ ts' = manual_pause_tick(ts)
    /\ loop_pc' = "paused_emit"
    /\ last' = Step("paused_handle", "-", <<>>)
    /\ UNCHANGED <<cfg, timer_lock, config_lock, timer_poisoned, is_sleeping, inflight,
                   meeting_poll_counter, break_active, break_seconds_left,
                   notified_pre_warning, persist_counter, was_sleeping, tick,
                   env_events, quiet_ticks, break_d, break_log, break_aborted>>
    /\ obs' = PauseTick(obs)
    /\ UNCHANGED call
    /\ UNCHANGED <<input_suppressed, awake_ticks>>

\* paused: `let ts = lock!(timer)` and the tick emitted under it; the guard lives
\* to the end of the paused block
PausedEmit ==
    /\ loop_pc = "paused_emit"
    /\ lock(timer_lock, timer_poisoned) = "guard"
    /\ timer_lock' = "loop"
    /\ loop_pc' = "paused_cfg"
    /\ last' = Step("paused_emit", "-",
                    <<timer_tick(ts.seconds_remaining, ts.is_paused, ts.pause_reason)>>)
    /\ UNCHANGED <<ts, cfg, config_lock, timer_poisoned, is_sleeping, inflight,
                   meeting_poll_counter, break_active, break_seconds_left,
                   notified_pre_warning, persist_counter, was_sleeping, tick,
                   env_events, quiet_ticks, break_d, break_log, break_aborted>>
    /\ UNCHANGED <<obs, call>>
    /\ UNCHANGED <<input_suppressed, awake_ticks>>

\* paused: strict_mode is read under the config mutex, the timer guard still held
PausedConfig ==
    /\ loop_pc = "paused_cfg"
    /\ CanLock(config_lock)
    /\ loop_pc' = "paused_persist"
    /\ last' = Step("paused_config", "-", <<>>)
    /\ UNCHANGED <<shared, inflight, meeting_poll_counter, break_active,
                   break_seconds_left, notified_pre_warning, persist_counter,
                   was_sleeping, tick, env_events, quiet_ticks, break_d, break_log,
                   break_aborted>>
    /\ UNCHANGED <<obs, call>>
    /\ UNCHANGED <<input_suppressed, awake_ticks>>

\* paused: maybe_persist below the write threshold; `continue` drops the guard
PausedPersist ==
    /\ loop_pc = "paused_persist"
    /\ ~persist_due(persist_counter)
    /\ persist_counter' = persist_next(persist_counter)
    /\ timer_lock' = "free"
    /\ loop_pc' = "top"
    /\ tick' = NoTick
    /\ last' = Step("paused_persist", "-", <<>>)
    /\ break_d' = None
    /\ break_log' = <<>>
    /\ UNCHANGED <<ts, cfg, config_lock, timer_poisoned, is_sleeping, inflight,
                   meeting_poll_counter, break_active, break_seconds_left,
                   notified_pre_warning, was_sleeping, env_events, quiet_ticks,
                   break_aborted>>
    /\ UNCHANGED <<obs, call>>
    /\ UNCHANGED <<input_suppressed, awake_ticks>>

\* paused: maybe_persist at the threshold locks the mutex its own thread holds.
\* std::sync::Mutex leaves this unspecified: the call never returns, it blocks ...
PausedRelockBlocks ==
    /\ loop_pc = "paused_persist"
    /\ persist_due(persist_counter)
    /\ persist_counter' = persist_next(persist_counter)
    /\ loop_pc' = "blocked"
    /\ last' = Step("relock_blocks", "-", <<>>)
    /\ Interrupted
    /\ UNCHANGED <<shared, inflight, meeting_poll_counter, break_active,
                   break_seconds_left, notified_pre_warning, was_sleeping, tick,
                   env_events, break_aborted>>
    /\ UNCHANGED <<obs, call>>
    /\ UNCHANGED <<input_suppressed, awake_ticks>>

\* ... or it panics: the task ends, the guard is dropped and the mutex poisoned
PausedRelockPanics ==
    /\ loop_pc = "paused_persist"
    /\ persist_due(persist_counter)
    /\ persist_counter' = persist_next(persist_counter)
    /\ loop_pc' = "panicked"
    /\ timer_lock' = "free"
    /\ timer_poisoned' = TRUE
    /\ last' = Step("relock_panics", "-", <<>>)
    /\ Interrupted
    /\ UNCHANGED <<ts, cfg, config_lock, is_sleeping, inflight, meeting_poll_counter,
                   break_active, break_seconds_left, notified_pre_warning,
                   was_sleeping, tick, env_events, break_aborted>>
    /\ UNCHANGED <<obs, call>>
    /\ UNCHANGED <<input_suppressed, awake_ticks>>

\* working: decrement seconds_remaining
WorkDecrement ==
    /\ loop_pc = "work_dec"
    /\ lock(timer_lock, timer_poisoned) = "guard"
    /\ ts' = [ts EXCEPT !.seconds_remaining = work_countdown(@)]
    /\ tick' = [tick EXCEPT !.seconds_remaining = ts'.seconds_remaining]
    /\ loop_pc' = "work_emit"
    /\ last' = Step("work_decrement", "-", <<>>)
    /\ UNCHANGED <<cfg, timer_lock, config_lock, timer_poisoned, is_sleeping, inflight,
                   meeting_poll_counter, break_active, break_seconds_left,
                   notified_pre_warning, persist_counter, was_sleeping, env_events,
                   quiet_ticks, break_d, break_log, break_aborted>>
    /\ UNCHANGED <<obs, call>>
    /\ UNCHANGED <<input_suppressed, awake_ticks>>

\* working: the pre-break notification and the tick event
WorkEmit ==
    /\ loop_pc = "work_emit"
    /\ lock(timer_lock, timer_poisoned) = "guard"
    /\ LET notify == /\ ~notified_pre_warning
                     /\ tick.pre_warning_secs > 0
                     /\ tick.seconds_remaining = tick.pre_warning_secs
       IN /\ notified_pre_warning' = (notified_pre_warning \/ notify)
          /\ last' = Step("work_emit", "-",
                 (IF notify THEN <<Ev("notification", tick.pre_warning_secs, FALSE, "None")>>
                  ELSE <<>>)
                 \o <<timer_tick(ts.seconds_remaining, FALSE, "None")>>)
    /\ loop_pc' = "work_persist"
    /\ UNCHANGED <<shared, inflight, meeting_poll_counter, break_active,
                   break_seconds_left, persist_counter, was_sleeping, tick, env_events,
                   quiet_ticks, break_d, break_log, break_aborted>>
    /\ obs' = CycleNote(obs, notified_pre_warning' /\ ~notified_pre_warning)
    /\ UNCHANGED call
    /\ UNCHANGED <<input_suppressed, awake_ticks>>

\* working: maybe_persist, then the break starts when the countdown reached zero
WorkPersist ==
    /\ loop_pc = "work_persist"
    /\ persist_due(persist_counter) => lock(timer_lock, timer_poisoned) = "guard"
    /\ persist_counter' = persist_next(persist_counter)
    /\ LET written == IF persist_due(persist_counter)
                      THEN <<persist_state(ts.seconds_remaining)>> ELSE <<>>
       IN IF tick.seconds_remaining = 0
          THEN /\ CanLock(config_lock)
               /\ break_active' = TRUE
               /\ break_seconds_left' = tick.config_break_dur
               /\ last' = Step("break_start", "-",
                               written \o <<break_start(tick.config_break_dur)>>)
               /\ break_d' = tick.config_break_dur
               /\ break_aborted' = FALSE
               /\ input_suppressed' = IF tick.is_strict
                                      THEN enable_strict_input_suppression(input_suppressed)
                                      ELSE input_suppressed
          ELSE /\ last' = Step("work_persist", "-", written)
               /\ break_d' = None
               /\ UNCHANGED <<break_active, break_seconds_left, break_aborted,
                              input_suppressed>>
    /\ break_log' = <<>>
    /\ quiet_ticks' = IF quiet_ticks # None THEN quiet_ticks + 1 ELSE None
    /\ loop_pc' = "top"
    /\ tick' = NoTick
    /\ UNCHANGED <<shared, inflight, meeting_poll_counter, notified_pre_warning,
                   was_sleeping, env_events>>
    /\ obs' = IF tick.seconds_remaining = 0 THEN BreakOpened(obs) ELSE obs
    /\ UNCHANGED call
    /\ UNCHANGED awake_ticks

(***************************************************************************)
(* The environment: power signals, the command surface, the settings save. *)
(***************************************************************************)
EnvEvent ==
    /\ env_events < MaxEnvEvents
    /\ env_events' = env_events + 1
    /\ Interrupted
    /\ UNCHANGED break_aborted

\* power_callback: kIOMessageSystemWillSleep
SystemWillSleep ==
    /\ ~is_sleeping
    /\ is_sleeping' = TRUE
    /\ last' = Step("system_will_sleep", "-", <<>>)
    /\ EnvEvent
    /\ UNCHANGED <<ts, cfg, timer_lock, config_lock, timer_poisoned, locals, inflight>>
    /\ obs' = PauseVoid(obs)
    /\ UNCHANGED call
    /\ UNCHANGED <<input_suppressed, awake_ticks>>

\* power_callback: kIOMessageSystemHasPoweredOn
SystemHasPoweredOn ==
    /\ is_sleeping
    /\ is_sleeping' = FALSE
    /\ last' = Step("system_has_powered_on", "-", <<>>)
    /\ EnvEvent
    /\ UNCHANGED <<ts, cfg, timer_lock, config_lock, timer_poisoned, locals, inflight>>
    /\ obs' = NapOver(PauseVoid(obs))
    /\ UNCHANGED call
    /\ UNCHANGED <<input_suppressed, awake_ticks>>

skip_break_ungated(t) == reset_full(t)
skip_break_ts(t) == IF t.is_strict_mode THEN t ELSE reset_full(t)
skip_break_ret(t) == IF t.is_strict_mode THEN "Err" ELSE "Ok"

skip_break ==
    /\ lock(timer_lock, timer_poisoned) = "guard"
    /\ ts' = skip_break_ts(ts)
    /\ last' = Step("skip_break", skip_break_ret(ts), <<>>)
    /\ EnvEvent
    /\ UNCHANGED <<cfg, timer_lock, config_lock, timer_poisoned, is_sleeping, locals,
                   inflight>>
    /\ obs' = IF ts.is_strict_mode THEN PauseVoid(obs) ELSE CycleReset(PauseVoid(obs))
    /\ UNCHANGED call
    /\ UNCHANGED <<input_suppressed, awake_ticks>>

\* `minutes * 60` is a u32 product: it wraps in a build without overflow checks ...
pause_timer_ts(t, minutes) ==
    IF t.is_strict_mode THEN t
    ELSE [t EXCEPT !.is_paused = TRUE,
                   !.pause_reason = "Manual",
                   !.manual_pause_seconds_remaining =
                       wrapping_mul(minutes, SecondsPerMinute)]
\* ... and panics in a build with them, after the two assignments before it
pause_timer_panics(t, minutes) ==
    ~t.is_strict_mode /\ mul_overflows(minutes, SecondsPerMinute)
pause_timer_panicked(t) ==
    [t EXCEPT !.is_paused = TRUE, !.pause_reason = "Manual"]
pause_timer_ret(t) == IF t.is_strict_mode THEN "Err" ELSE "Ok"

pause_timer ==
    /\ lock(timer_lock, timer_poisoned) = "guard"
    /\ \E minutes \in 0 .. MaxPauseMinutes :
          /\ ts' = pause_timer_ts(ts, minutes)
          /\ obs' = IF ts.is_strict_mode THEN PauseVoid(obs)
                    ELSE PauseBegin(obs, minutes * SecondsPerMinute, ts.seconds_remaining)
    /\ last' = Step("pause_timer", pause_timer_ret(ts), <<>>)
    /\ EnvEvent
    /\ UNCHANGED <<cfg, timer_lock, config_lock, timer_poisoned, is_sleeping, locals,
                   inflight>>
    /\ UNCHANGED call
    /\ UNCHANGED <<input_suppressed, awake_ticks>>

\* pause_timer in a build with overflow checks, given minutes whose product
\* with the seconds of a minute does not fit: it panics with the guard held
OverflowMinutes == {(2 ^ U32Bits + SecondsPerMinute - 1) \div SecondsPerMinute}

pause_timer_overflow ==
    /\ lock(timer_lock, timer_poisoned) = "guard"
    /\ \E minutes \in OverflowMinutes : pause_timer_panics(ts, minutes)
    /\ ts' = pause_timer_panicked(ts)
    /\ timer_poisoned' = TRUE
    /\ last' = Step("pause_timer", "Panic", <<>>)
    /\ EnvEvent
    /\ UNCHANGED <<cfg, timer_lock, config_lock, is_sleeping, locals, inflight>>
    /\ obs' = PauseVoid(obs)
    /\ UNCHANGED call
    /\ UNCHANGED <<input_suppressed, awake_ticks>>

resume_timer_unchecked(t) ==
    [t EXCEPT !.is_paused = FALSE,
              !.pause_reason = "None",
              !.manual_pause_seconds_remaining = None]
resume_timer_ts(t) ==
    IF t.pause_reason = "Meeting" THEN t
    ELSE [t EXCEPT !.is_paused = FALSE,
                   !.pause_reason = "None",
                   !.manual_pause_seconds_remaining = None]
resume_timer_ret(t) == IF t.pause_reason = "Meeting" THEN "Err" ELSE "Ok"

resume_timer ==
    /\ lock(timer_lock, timer_poisoned) = "guard"
    /\ ts' = resume_timer_ts(ts)
    /\ last' = Step("resume_timer", resume_timer_ret(ts), <<>>)
    /\ EnvEvent
    /\ UNCHANGED <<cfg, timer_lock, config_lock, timer_poisoned, is_sleeping, locals,
                   inflight>>
    /\ obs' = PauseVoid(obs)
    /\ UNCHANGED call
    /\ UNCHANGED <<input_suppressed, awake_ticks>>

\* force_skip_break touches TimerState only: the loop's break_active is not its to clear
force_skip_break ==
    /\ lock(timer_lock, timer_poisoned) = "guard"
    /\ ts' = reset_full(ts)
    /\ last' = Step("force_skip_break", "Ok", <<break_end(TRUE)>>)
    /\ EnvEvent
    /\ UNCHANGED <<cfg, timer_lock, config_lock, timer_poisoned, is_sleeping, locals,
                   inflight>>
    /\ obs' = BreakClosed(CycleReset(PauseVoid(obs)))
    /\ UNCHANGED call
    /\ input_suppressed' = disable_strict_input_suppression(input_suppressed)
    /\ UNCHANGED awake_ticks

\* tray menu "Skip break": the same reset, with nothing to return
tray_skip_ts(t) == IF ~t.is_strict_mode THEN reset_full(t) ELSE t

tray_skip ==
    /\ lock(timer_lock, timer_poisoned) = "guard"
    /\ ts' = tray_skip_ts(ts)
    /\ last' = Step("tray_skip", "-", <<>>)
    /\ EnvEvent
    /\ UNCHANGED <<cfg, timer_lock, config_lock, timer_poisoned, is_sleeping, locals,
                   inflight>>
    /\ obs' = IF ts.is_strict_mode THEN PauseVoid(obs) ELSE CycleReset(PauseVoid(obs))
    /\ UNCHANGED call
    /\ UNCHANGED <<input_suppressed, awake_ticks>>

\* tray menu "Pause 30 min" and "Pause 1 hr": the length is a constant of the item;
\* the model's items pause for the lengths pause_timer is given
TrayPauseSeconds == {n * SecondsPerMinute : n \in 1 .. MaxPauseMinutes}
tray_pause_ts(t, seconds) ==
    IF ~t.is_strict_mode
    THEN [t EXCEPT !.is_paused = TRUE,
                   !.pause_reason = "Manual",
                   !.manual_pause_seconds_remaining = seconds]
    ELSE t

tray_pause ==
    /\ lock(timer_lock, timer_poisoned) = "guard"
    /\ \E seconds \in TrayPauseSeconds :
          /\ ts' = tray_pause_ts(ts, seconds)
          /\ obs' = IF ts.is_strict_mode THEN PauseVoid(obs)
                    ELSE PauseBegin(obs, seconds, ts.seconds_remaining)
    /\ last' = Step("tray_pause", "-", <<>>)
    /\ EnvEvent
    /\ UNCHANGED <<cfg, timer_lock, config_lock, timer_poisoned, is_sleeping, locals,
                   inflight>>
    /\ UNCHANGED call
    /\ UNCHANGED <<input_suppressed, awake_ticks>>

\* what both saves copy into TimerState
apply_config(t, c) ==
    [t EXCEPT !.is_strict_mode = c.strict_mode,
              !.work_interval_seconds = interval_of(c)]

\* save_config, first critical section: the config mutex
save_config_store ==
    /\ ~sc.pending
    /\ CanLock(config_lock)
    /\ \E c \in SavedConfigs :
          /\ cfg' = validated(c)
          /\ sc' = Saving(validated(c))
    /\ last' = Step("save_config_store", "-", <<>>)
    /\ EnvEvent
    /\ UNCHANGED <<ts, timer_lock, config_lock, timer_poisoned, is_sleeping, locals, sa>>
    /\ obs' = CycleVoid(PauseVoid(obs))
    /\ UNCHANGED call
    /\ UNCHANGED <<input_suppressed, awake_ticks>>

\* save_config, second critical section: the TimerState mutex
save_config_apply ==
    /\ sc.pending
    /\ lock(timer_lock, timer_poisoned) = "guard"
    /\ ts' = apply_config(ts, sc.config)
    /\ sc' = NoSave
    /\ last' = Step("save_config", "Ok", <<>>)
    /\ Interrupted
    /\ UNCHANGED <<cfg, timer_lock, config_lock, timer_poisoned, is_sleeping, locals, sa,
                   env_events, break_aborted>>
    /\ obs' = CycleVoid(PauseVoid(obs))
    /\ UNCHANGED call
    /\ UNCHANGED <<input_suppressed, awake_ticks>>

\* save_action: takes the config mutex and keeps it ...
save_action_store ==
    /\ ~sa.pending
    /\ CanLock(config_lock)
    /\ config_lock' = "save_action"
    /\ \E c \in SavedConfigs :
          /\ cfg' = validated(c)
          /\ sa' = Saving(validated(c))
    /\ last' = Step("save_action_store", "-", <<>>)
    /\ EnvEvent
    /\ UNCHANGED <<ts, timer_lock, timer_poisoned, is_sleeping, locals, sc>>
    /\ obs' = CycleVoid(PauseVoid(obs))
    /\ UNCHANGED call
    /\ UNCHANGED <<input_suppressed, awake_ticks>>

\* ... while it takes the TimerState mutex; both are released at the end of the block
save_action_apply ==
    /\ sa.pending
    /\ lock(timer_lock, timer_poisoned) = "guard"
    /\ ts' = apply_config(ts, sa.config)
    /\ config_lock' = "free"
    /\ sa' = NoSave
    /\ last' = Step("save_action", "-", <<>>)
    /\ Interrupted
    /\ UNCHANGED <<cfg, timer_lock, timer_poisoned, is_sleeping, locals, sc,
                   env_events, break_aborted>>
    /\ obs' = CycleVoid(PauseVoid(obs))
    /\ UNCHANGED call
    /\ UNCHANGED <<input_suppressed, awake_ticks>>

Loop ==
    \/ SleepEdge \/ WakeReset \/ WakeEmit \/ MidSleep \/ ReadConfig
    \/ MeetingPoll \/ MeetingApply
    \/ BreakCountdown
    \/ ReadPaused \/ PausedHandle \/ PausedEmit \/ PausedConfig
    \/ PausedPersist \/ PausedRelockBlocks \/ PausedRelockPanics
    \/ WorkDecrement \/ WorkEmit \/ WorkPersist

Commands ==
    \/ skip_break \/ pause_timer \/ resume_timer \/ force_skip_break
    \/ save_config_store \/ save_config_apply
    \/ save_action_store \/ save_action_apply

Tray == tray_skip \/ tray_pause

Next == Loop \/ Commands \/ Tray \/ SystemWillSleep \/ SystemHasPoweredOn

Spec == Init /\ [][Next]_vars

\* the same system in a build with overflow checks, where a Pause can panic;
\* the configuration is saved through the settings window
NextPoisoned ==
    \/ Loop \/ Tray \/ SystemWillSleep \/ SystemHasPoweredOn
    \/ skip_break \/ pause_timer \/ resume_timer \/ force_skip_break
    \/ save_action_store \/ save_action_apply
    \/ pause_timer_overflow

SpecPoisoned == Init /\ [][NextPoisoned]_vars

\* the same system with the work cycle and the manual pause under observation
SpecObserved == InitObserved /\ [][Next]_vars

(***************************************************************************)
(* restore_or_create and pause_timer on chosen arguments.                  *)
(***************************************************************************)
\* intervals of 0, 1 and 2 minutes
RestoreConfigs == {AppConfig(m, 5, s, TRUE, 0) : m \in 0 .. 2, s \in BOOLEAN}
\* no readable record, or a record of 0 .. 2 minutes + 1 seconds saved at 0 or at 3
RestoreRecords ==
    {NoRecord} \cup {PersistedTimer(r, t) : r \in 0 .. (2 * SecondsPerMinute + 1),
                                            t \in {0, 3}}
\* the u64 clock, from before saved_at to more than twice the u32 range after it
RestoreClocks == 0 .. (2 * (2 ^ U32Bits) + 4)

\* the TimerState pause_timer finds
PauseStates ==
    {[TimerState_new(AppConfig(1, 5, s, TRUE, 0)) EXCEPT !.seconds_remaining = r] :
        s \in BOOLEAN, r \in 0 .. SecondsPerMinute}

InitFn ==
    /\ Boot({AppConfig(1, 5, FALSE, TRUE, 0)}, {NoRecord}, {0})
    /\ obs = ObsOff

CallRestore ==
    /\ call = NoCall
    /\ \E c \in RestoreConfigs, p \in RestoreRecords, now \in RestoreClocks :
          call' = [NoCall EXCEPT !.fn = "restore_or_create",
                                 !.config = c,
                                 !.persisted = p,
                                 !.now = now,
                                 !.out = restore_or_create(c, p, now)]
    /\ UNCHANGED <<shared, locals, inflight, history, obs>>
    /\ UNCHANGED <<input_suppressed, awake_ticks>>

\* the build decides what an overflowing product does
CallPause ==
    /\ call = NoCall
    /\ \E t \in PauseStates, minutes \in 0 .. (2 ^ U32Bits - 1), checked \in BOOLEAN :
          LET panics == checked /\ pause_timer_panics(t, minutes) IN
          call' = [NoCall EXCEPT !.fn = "pause_timer",
                                 !.t = t,
                                 !.minutes = minutes,
                                 !.out = IF panics THEN pause_timer_panicked(t)
                                         ELSE pause_timer_ts(t, minutes),
                                 !.ret = IF panics THEN "Panic" ELSE pause_timer_ret(t)]
    /\ UNCHANGED <<shared, locals, inflight, history, obs>>
    /\ UNCHANGED <<input_suppressed, awake_ticks>>

NextFn == CallRestore \/ CallPause

SpecFn == InitFn /\ [][NextFn]_vars

(***************************************************************************)
(* The default configuration left alone: twenty minutes of work, a break   *)
(* of twenty seconds, a pre-warning of sixty, with meeting detection off.  *)
(* The twenty minutes are written in the model's minutes.                  *)
(***************************************************************************)
ScenarioConfig == AppConfig(1200 \div SecondsPerMinute, 20, FALSE, FALSE, 60)

InitScenario ==
    /\ Boot({ScenarioConfig}, {NoRecord}, {0})
    /\ obs = ObsOff

NextScenario ==
    \/ ReadConfig \/ MeetingPoll \/ BreakCountdown
    \/ ReadPaused \/ WorkDecrement \/ WorkEmit \/ WorkPersist

SpecScenario == InitScenario /\ [][NextScenario]_vars

(***************************************************************************)
(* Properties.                                                             *)
(***************************************************************************)
\* C1: from a fresh state (seconds_remaining = I, unpaused, awake, no break), after
\* t <= I undisturbed ticks the countdown stands at I - t.
C1_WorkCountdown ==
    (quiet_ticks # None /\ loop_pc = "top") =>
        /\ quiet_ticks <= ts.work_interval_seconds
        /\ ts.seconds_remaining = ts.work_interval_seconds - quiet_ticks

\* three undisturbed ticks into an interval of four seconds
C1_Witness ==
    /\ loop_pc = "top"
    /\ quiet_ticks = 3
    /\ ts.work_interval_seconds = 4
    /\ ts.seconds_remaining = 1

\* C2: an undisturbed break of D >= 1 seconds emits break:tick on each of its first
\* D-1 ticks and break:end on the D-th, and is active exactly until then.
C2_BreakExact ==
    (break_d # None /\ break_d >= 1) =>
        /\ Len(break_log) <= break_d
        /\ \A i \in 1 .. Len(break_log) :
              break_log[i] = IF i < break_d THEN "break:tick" ELSE "break:end"
        /\ break_active <=> Len(break_log) < break_d

\* a two-second break that has just ended on its second tick
C2_Witness ==
    /\ break_d = 2
    /\ break_log = <<"break:tick", "break:end">>
    /\ ~break_active
    /\ last.op = "break_end"

\* C3: Force-skip succeeds and leaves the system Working with a full interval and
\* no break active in the loop.
C3_ForceSkipEndsBreak ==
    last.op = "force_skip_break" =>
        /\ last.ret = "Ok"
        /\ Fresh(ts)
        /\ ~break_active

\* C4: in strict mode Skip break and Pause are rejected and change nothing in
\* TimerState.
C4_StrictGating ==
    [][ (last'.op \in {"skip_break", "pause_timer"} /\ ts.is_strict_mode) =>
            (last'.ret = "Err" /\ ts' = ts) ]_vars

\* Skip break rejected in strict mode with the countdown part-way down
C4_Witness ==
    /\ last.op = "skip_break"
    /\ last.ret = "Err"
    /\ ts.is_strict_mode
    /\ ts.seconds_remaining < ts.work_interval_seconds

\* C5: only the meeting probe's "meeting ended" step takes the timer out of
\* Paused{Meeting}.
C5_OnlyMeetingEndLeaves ==
    [][ (ts.pause_reason = "Meeting" /\ ts'.pause_reason # "Meeting") =>
            last'.op = "meeting_ended" ]_vars

\* C6: Resume is rejected, with TimerState unchanged, exactly while meeting-paused;
\* otherwise it succeeds and clears the pause, leaving the countdown alone.
C6_ResumeGating ==
    [][ last'.op = "resume_timer" =>
            IF ts.pause_reason = "Meeting"
            THEN last'.ret = "Err" /\ ts' = ts
            ELSE /\ last'.ret = "Ok"
                 /\ ~ts'.is_paused
                 /\ ts'.pause_reason = "None"
                 /\ ts'.manual_pause_seconds_remaining = None
                 /\ ts'.seconds_remaining = ts.seconds_remaining
                 /\ ts'.is_strict_mode = ts.is_strict_mode
                 /\ ts'.work_interval_seconds = ts.work_interval_seconds ]_vars

\* Resume rejected during a meeting pause
C6_Witness ==
    /\ last.op = "resume_timer"
    /\ last.ret = "Err"
    /\ ts.pause_reason = "Meeting"
    /\ ts.is_paused

C8_LoopNeverStops ==
    /\ loop_pc # "blocked"
    /\ loop_pc # "panicked"

\* C9: the loop and a save never wait for each other's mutex.
C9_NoLockCycle ==
    ~ /\ timer_lock = "loop"
      /\ loop_pc = "paused_cfg"
      /\ config_lock = "save_action"
      /\ sa.pending

\* C10: seconds_remaining never exceeds work_interval_seconds and never goes
\* below zero.
C10_RemainingWithinInterval ==
    /\ ts.seconds_remaining >= 0
    /\ ts.seconds_remaining <= ts.work_interval_seconds

\* C11: manual_pause_seconds_remaining is Some(_) only while pause_reason is Manual.
C11_ManualCounterOnlyWhenManual ==
    ts.manual_pause_seconds_remaining # None => ts.pause_reason = "Manual"

\* C12: is_paused holds exactly when pause_reason is not None.
C12_PausedIffReason ==
    ts.is_paused <=> ts.pause_reason # "None"

\* a meeting pause taken over by a manual pause command
C12_Witness ==
    /\ last.op = "pause_timer"
    /\ last.ret = "Ok"
    /\ tick.meeting_now
    /\ tick.currently_meeting_paused
    /\ ts.is_paused
    /\ ts.pause_reason = "Manual"

\* C13: while a break is in progress in the loop, TimerState is neither paused nor
\* carries a pause reason.
C13_BreakNeverPaused ==
    break_active => (~ts.is_paused /\ ts.pause_reason = "None")

\* C14: a record {S, T} with S <= I restored at T + D gives S - D when D < S and a
\* fresh state with seconds_remaining = I when D >= S; unpaused, no reason, no manual
\* countdown, work_interval_seconds = I in both cases.
C14_RestoreRoundTrip ==
    (/\ call.fn = "restore_or_create"
     /\ call.persisted # NoRecord
     /\ call.persisted.seconds_remaining <= interval_of(call.config)
     /\ call.now >= call.persisted.saved_at) =>
        LET S == call.persisted.seconds_remaining
            I == interval_of(call.config)
            D == call.now - call.persisted.saved_at
        IN  /\ call.out.seconds_remaining = IF D < S THEN S - D ELSE I
            /\ ~call.out.is_paused
            /\ call.out.pause_reason = "None"
            /\ call.out.manual_pause_seconds_remaining = None
            /\ call.out.work_interval_seconds = I

\* C15: for an interval I > 0, restore returns 1 <= seconds_remaining <= I whatever
\* the record and the clock, and a record with S > I gives the fresh state.
C15_RestoreInRange ==
    (call.fn = "restore_or_create" /\ interval_of(call.config) > 0) =>
        /\ call.out.seconds_remaining >= 1
        /\ call.out.seconds_remaining <= interval_of(call.config)
        /\ (/\ call.persisted # NoRecord
            /\ call.persisted.seconds_remaining > interval_of(call.config)) =>
               call.out = TimerState_new(call.config)

\* a record longer than the interval, read before a full second has passed
C15_Witness ==
    /\ call.fn = "restore_or_create"
    /\ call.persisted # NoRecord
    /\ interval_of(call.config) > 0
    /\ call.persisted.seconds_remaining > interval_of(call.config)
    /\ call.now = call.persisted.saved_at
    /\ call.out.seconds_remaining = interval_of(call.config)

\* C16: I = 1200, D = 20, P = 60, nothing interferes.  The pre-break notification
\* fires on tick 1140 and on no other; the break starts on tick 1200, not before,
\* with break:start{20} and seconds_remaining = 0; its twentieth tick emits the one
\* break:end{force_skipped: false} and leaves seconds_remaining = 1200, unpaused.
C16_DefaultCycle ==
    /\ (quiet_ticks # None /\ loop_pc = "top") =>
           (notified_pre_warning <=> quiet_ticks >= 1140)
    /\ \A i \in 1 .. Len(last.ev) :
           last.ev[i].name = "notification" =>
               /\ quiet_ticks = 1139
               /\ ts.seconds_remaining = 60
               /\ last.ev[i].n = 60
    /\ (quiet_ticks # None /\ quiet_ticks < 1200) => ~break_active
    /\ last.op = "break_start" =>
           /\ quiet_ticks = 1200
           /\ ts.seconds_remaining = 0
           /\ last.ev[Len(last.ev)] = break_start(20)
           /\ break_active
    /\ last.op = "break_end" =>
           /\ Len(break_log) = 20
           /\ \A i \in 1 .. 19 : break_log[i] = "break:tick"
           /\ break_log[20] = "break:end"
           /\ last.ev[1] = break_end(FALSE)
           /\ ts.seconds_remaining = 1200
           /\ ~ts.is_paused

\* the twentieth tick of the break has just ended it
C16_Witness ==
    /\ last.op = "break_end"
    /\ Len(break_log) = 20
    /\ notified_pre_warning = FALSE
    /\ ts.seconds_remaining = 1200
    /\ cfg = ScenarioConfig

\* C17: with 0 < P < I, a work cycle that began with a reset to the full interval
\* has had exactly one pre-break notification when its break starts, and never two.
C17_PreWarningOncePerCycle ==
    /\ obs.notes # None => obs.notes <= 1
    /\ (/\ last.op = "break_start"
        /\ obs.notes # None
        /\ cfg.pre_warning_seconds > 0
        /\ cfg.pre_warning_seconds < ts.work_interval_seconds) => obs.notes = 1

\* C18: with strict mode off, Skip break (command or tray item) succeeds and leaves
\* a full interval, unpaused, with is_strict_mode and work_interval_seconds as they
\* were; a second Skip break changes nothing.
C18_SkipResets ==
    [][ (last'.op \in {"skip_break", "tray_skip"} /\ ~ts.is_strict_mode) =>
            /\ last'.op = "skip_break" => last'.ret = "Ok"
            /\ ts'.seconds_remaining = ts.work_interval_seconds
            /\ ~ts'.is_paused
            /\ ts'.pause_reason = "None"
            /\ ts'.is_strict_mode = ts.is_strict_mode
            /\ ts'.work_interval_seconds = ts.work_interval_seconds
            /\ skip_break_ts(ts') = ts'
            /\ tray_skip_ts(ts') = ts' ]_vars

\* Skip break accepted during a manual pause: the pause is gone
C18_Witness ==
    /\ last.op = "skip_break"
    /\ last.ret = "Ok"
    /\ ts.manual_pause_seconds_remaining # None
    /\ ~ts.is_paused
    /\ ts.seconds_remaining = ts.work_interval_seconds

\* C19: with strict mode off, Pause(minutes) returns Ok and leaves paused, Manual,
\* manual_pause_seconds_remaining = minutes * 60 and seconds_remaining untouched, for
\* every u32 minutes.
C19_PauseAnyMinutes ==
    (call.fn = "pause_timer" /\ ~call.t.is_strict_mode) =>
        /\ call.ret = "Ok"
        /\ call.out.is_paused
        /\ call.out.pause_reason = "Manual"
        /\ call.out.manual_pause_seconds_remaining = call.minutes * SecondsPerMinute
        /\ call.out.seconds_remaining = call.t.seconds_remaining

\* C20: after an accepted pause of n >= 1 seconds that nothing disturbs, the k-th
\* paused tick leaves n - k seconds of pause for k < n, and the n-th ends the pause:
\* no manual countdown, unpaused, no reason; seconds_remaining as the pause found it.
C20_ManualAutoResume ==
    (/\ obs.pause_n # None
     /\ obs.pause_n >= 1
     /\ obs.pause_ticks >= 1
     /\ last.op = "paused_handle") =>
        /\ ts.seconds_remaining = obs.pause_sr
        /\ IF obs.pause_ticks < obs.pause_n
           THEN /\ ts.manual_pause_seconds_remaining = obs.pause_n - obs.pause_ticks
                /\ ts.is_paused
                /\ ts.pause_reason = "Manual"
           ELSE /\ ts.manual_pause_seconds_remaining = None
                /\ ~ts.is_paused
                /\ ts.pause_reason = "None"

C22_NapResetsBeforeCountdown ==
    obs.nap => ~(last.op = "work_decrement" /\ tick.seconds_remaining > 0)

\* C23: the work countdown is not decremented, and no break is started, while
\* is_paused is set, however a pause falls between the loop's reading of
\* is_paused and its decrement.
C23_PausedTimeStands ==
    last.op \in {"work_decrement", "break_start"} => ~ts.is_paused

\* C24: no timer:tick, break:start, break:tick or break:end is emitted while
\* the emitting thread holds the TimerState mutex.
C24_EmitsUnlocked ==
    (\E i \in 1 .. Len(last.ev) :
        last.ev[i].name \in {"timer:tick", "break:start", "break:tick", "break:end"})
    => timer_lock = "free"

\* C25: the persistence counter moves only at the end of a paused or a work
\* tick, by one; the throttled write happens exactly on the ticks where it
\* reaches the period, and it restarts there; the writes at the end of a break
\* and at wake leave the counter alone.
C25_PersistCadence ==
    [][/\ persist_counter' # persist_counter =>
             loop_pc \in {"paused_persist", "work_persist"}
       /\ (loop_pc \in {"paused_persist", "work_persist"} /\ loop_pc' # loop_pc) =>
             /\ persist_counter' = (persist_counter + 1) % PersistTicks
             /\ (persist_counter + 1 = PersistTicks) <=>
                   (\E i \in 1 .. Len(last'.ev) : last'.ev[i].name = "persist")
       /\ last'.op \in {"break_end", "wake_reset"} =>
             /\ \E i \in 1 .. Len(last'.ev) : last'.ev[i].name = "persist"
             /\ persist_counter' = persist_counter]_vars

\* C26: the tick that finds the system asleep abandons the break, clears the
\* pre-warning flag, switches input suppression off, leaves TimerState alone
\* and emits nothing; a tick asleep on both sides changes nothing and emits
\* nothing; and a break only ever becomes active again by being started anew,
\* with its full duration.
C26_SleepEdgeFrame ==
    [][/\ last'.op = "sleep_edge" =>
             /\ ~break_active'
             /\ ~notified_pre_warning'
             /\ ~input_suppressed'
             /\ ts' = ts
             /\ last'.ev = <<>>
       /\ last'.op = "mid_sleep" =>
             /\ UNCHANGED <<shared, locals, input_suppressed>>
             /\ last'.ev = <<>>
       /\ (~break_active /\ break_active') =>
             /\ last'.op = "break_start"
             /\ break_seconds_left' = tick.config_break_dur]_vars

\* the sleep edge during a strict break
C26_Witness ==
    /\ last.op = "sleep_edge"
    /\ ts.seconds_remaining = 0
    /\ break_seconds_left > 0
    /\ ts.is_strict_mode

\* C27: a tick runs at most one of break countdown, paused handling and work
\* countdown; a tick on a sleep edge or asleep runs none of them and no probe;
\* and on a tick where a meeting aborts the break, neither the break countdown
\* nor the work countdown runs.
C27_FixedPriority ==
    /\ was_sleeping => loop_pc \in {"top", "wake_emit"}
    /\ last.op \in {"break_tick", "break_end", "paused_persist"} => loop_pc = "top"
    /\ tick.aborted_break =>
          /\ ~break_active
          /\ loop_pc \notin {"work_dec", "work_emit", "work_persist"}

\* C28: a timer paused for a meeting is resumed by the loop on its own once
\* the meeting is over; the loop, which alone can do it, is therefore still
\* running whenever the timer is meeting-paused.
C28_MeetingPauseResumes ==
    (ts.is_paused /\ ts.pause_reason = "Meeting") =>
        loop_pc \notin {"blocked", "panicked"}

\* C29: the meeting probe runs only on an awake tick whose configuration
\* snapshot has meeting detection on, and only when MeetingPollTicks awake ticks
\* (this one included) have passed since the loop started, since the last
\* wake or since the last probe, whatever was saved in between.
C29_ProbeCadence ==
    [][last'.op = "meeting_probe" =>
          /\ tick.meeting_detection
          /\ ~was_sleeping
          /\ awake_ticks >= MeetingPollTicks]_vars

\* a probe after detection was saved off (strict, one minute) and on again
C29_Witness ==
    /\ last.op = "meeting_probe"
    /\ ts.is_strict_mode
    /\ ts.work_interval_seconds = SecondsPerMinute
    /\ tick.meeting_detection
    /\ tick.config_break_dur = 5

\* C30: a meeting found while no break is active and the timer is not yet
\* meeting-paused sets is_paused and the reason Meeting and nothing else in
\* TimerState; a meeting found while the timer is already meeting-paused leaves
\* TimerState as it is.
C30_MeetingPauseFrame ==
    [][/\ (last'.op = "meeting_started" /\ ~break_active) =>
             ts' = [ts EXCEPT !.is_paused = TRUE, !.pause_reason = "Meeting"]
       /\ (last'.op = "meeting_probe" /\ tick'.meeting_now
              /\ tick'.currently_meeting_paused) =>
             /\ ts' = ts
             /\ loop_pc' = "phase"]_vars

\* a meeting found in the middle of the work countdown
C30_Witness ==
    /\ last.op = "meeting_started"
    /\ ~tick.aborted_break
    /\ ts.pause_reason = "Meeting"
    /\ ts.seconds_remaining > 0
    /\ ts.seconds_remaining < ts.work_interval_seconds

\* C31: a meeting found while the pause reason is Manual turns the reason into
\* Meeting and leaves seconds_remaining as it was; while the reason is Meeting
\* the paused branch does not un-pause, Resume is rejected and changes nothing,
\* and the meeting-end branch leaves the timer unpaused with no reason.
C31_MeetingOverridesManual ==
    [][/\ (last'.op = "meeting_started" /\ ts.pause_reason = "Manual") =>
             /\ ts'.is_paused
             /\ ts'.pause_reason = "Meeting"
             /\ ts'.seconds_remaining = ts.seconds_remaining
       /\ (last'.op = "paused_handle" /\ ts.pause_reason = "Meeting") =>
             /\ ts'.is_paused
             /\ ts'.pause_reason = "Meeting"
       /\ (last'.op = "resume_timer" /\ ts.pause_reason = "Meeting") =>
             /\ last'.ret = "Err"
             /\ ts' = ts
       /\ last'.op = "meeting_ended" =>
             /\ ~ts'.is_paused
             /\ ts'.pause_reason = "None"]_vars

\* C32: Pause, Resume and the saves leave seconds_remaining alone, Skip break
\* and Force-skip leave it alone or set it to work_interval_seconds, and
\* seconds_remaining only ever goes down in the loop's work decrement, by one.
C32_OnlyLoopAdvancesTime ==
    [][/\ last'.op \in {"pause_timer", "tray_pause", "resume_timer", "save_config_store",
                        "save_config", "save_action_store", "save_action"} =>
             ts'.seconds_remaining = ts.seconds_remaining
       /\ last'.op \in {"skip_break", "tray_skip", "force_skip_break"} =>
             ts'.seconds_remaining \in {ts.seconds_remaining, ts.work_interval_seconds}
       /\ ts'.seconds_remaining < ts.seconds_remaining =>
             /\ last'.op = "work_decrement"
             /\ ts'.seconds_remaining = ts.seconds_remaining - 1]_vars

\* C33: once a Skip break has been accepted (command or tray item, strict mode
\* off) no break is active in the loop any more.
C33_SkipEndsBreak ==
    (\/ last.op = "skip_break" /\ last.ret = "Ok"
     \/ last.op = "tray_skip" /\ ~ts.is_strict_mode) => ~break_active

\* C37: the tick event of the paused branch and of the work branch carries
\* seconds_remaining, is_paused and pause_reason as TimerState holds them when
\* it is emitted; the break countdown and the ticks asleep emit no timer:tick.
C37_TickPayload ==
    /\ last.op \in {"paused_emit", "work_emit"} =>
          last.ev[Len(last.ev)] =
              timer_tick(ts.seconds_remaining, ts.is_paused, ts.pause_reason)
    /\ last.op \in {"break_tick", "break_end", "sleep_edge", "mid_sleep"} =>
          \A i \in 1 .. Len(last.ev) : last.ev[i].name # "timer:tick"

\* C38: restore subtracts the whole elapsed time, floored at zero: a record
\* {S, T} with S <= I restored at any time T + D gives max(S - D, 0), and the
\* fresh state whenever D >= S, however large D is.
C38_RestoreFullElapsed ==
    (/\ call.fn = "restore_or_create"
     /\ call.persisted # NoRecord
     /\ call.persisted.seconds_remaining <= interval_of(call.config)) =>
        LET D == saturating_sub(call.now, call.persisted.saved_at)
            adjusted == saturating_sub(call.persisted.seconds_remaining, D)
        IN  /\ adjusted > 0 => call.out.seconds_remaining = adjusted
            /\ adjusted = 0 => call.out = TimerState_new(call.config)

\* C34: in the stream of emitted events a break:end or a break:tick comes only
\* after a break:start that no break:end has followed yet.
C34_BreakEventsBracketed ==
    [][\A i \in 1 .. Len(last'.ev) :
          last'.ev[i].name \in {"break:end", "break:tick"} => obs.in_break]_vars

C36_ProbeFailureIsNoMeeting ==
    /\ (last.op = "meeting_probe"
         /\ last.ret \in {"task_failed", "spawn_failed", "timed_out", "wait_failed"}) =>
          /\ ~tick.meeting_now
          /\ loop_pc = IF tick.currently_meeting_paused THEN "meeting_apply" ELSE "phase"
    /\ last.op = "meeting_ended" =>
          /\ ~ts.is_paused
          /\ ts.pause_reason = "None"
          /\ loop_pc = "phase"

\* the script times out at a probe that finds the timer meeting-paused
C36_Witness ==
    /\ last.op = "meeting_probe"
    /\ last.ret = "timed_out"
    /\ tick.currently_meeting_paused
    /\ ts.is_paused
    /\ loop_pc = "meeting_apply"

\* C40: while no save is under way TimerState carries the configuration's strict
\* mode and its work interval in seconds.
C40_TimerMirrorsConfig ==
    (~sc.pending /\ ~sa.pending) =>
        /\ ts.is_strict_mode = cfg.strict_mode
        /\ ts.work_interval_seconds = interval_of(cfg)

\* C39: once a panic has poisoned the TimerState mutex, every acquisition still
\* gets the guard as soon as the mutex is free: each command can be carried
\* out and each critical section of the loop can be entered, on TimerState
\* as it was last written.
C39_PoisonRecovered ==
    (timer_poisoned /\ timer_lock = "free") =>
        /\ env_events < MaxEnvEvents =>
              /\ ENABLED skip_break
              /\ ENABLED pause_timer
              /\ ENABLED resume_timer
              /\ ENABLED force_skip_break
              /\ ENABLED tray_skip
              /\ ENABLED tray_pause
        /\ sa.pending => ENABLED save_action_apply
        /\ (loop_pc = "top" /\ was_sleeping /\ ~is_sleeping) => ENABLED WakeReset
        /\ loop_pc = "wake_emit" => ENABLED WakeEmit
        /\ loop_pc = "meeting_apply" => ENABLED MeetingApply
        /\ (loop_pc = "phase" /\ ~break_active) => ENABLED ReadPaused
        /\ loop_pc = "paused_handle" => ENABLED PausedHandle
        /\ loop_pc = "paused_emit" => ENABLED PausedEmit
        /\ loop_pc = "work_dec" => ENABLED WorkDecrement
        /\ loop_pc = "work_emit" => ENABLED WorkEmit

\* a work tick counts down after a Pause panicked with the guard held and a
\* second command un-paused the state the panic left
C39_Witness ==
    /\ timer_poisoned
    /\ last.op = "work_decrement"
    /\ env_events = 2
    /\ ~ts.is_paused

====
